---- MODULE Spec2Model ----
(* Onboarding wizard of src/pages/Onboarding.jsx: the route guard effect,   *)
(* the four-step form, and the submission mutation.                         *)
EXTENDS Integers, Sequences, FiniteSets, TLC

(* ---------------------------------------------------------------- bounds *)
MaxGuardRuns == 2
MaxSubmits == 2

(* ------------------------------------------------------------- constants *)
totalSteps == 4

transportOptions ==
  {"car_gasoline", "car_electric", "car_hybrid", "motorcycle",
   "public_transport", "bicycle", "walk", "mixed"}
heatingOptions == {"electric", "gas", "solar", "none"}
residenceSizeOptions == {"small", "medium", "large"}
recyclingOptions == {"always", "sometimes", "rarely", "never"}

(* Texts are sequences of one-character strings; "" is << >>. *)
initialFormState ==
  [name |-> << >>, household_size |-> << >>, transportation_type |-> "",
   has_solar_panels |-> FALSE, heating_type |-> "", residence_size |-> "",
   has_garden |-> FALSE, recycling_habit |-> ""]

(* Values the user is made to enter in the two text inputs and the option   *)
(* buttons the user is made to click.                                       *)
NameInputs == { << >>, <<" ">>, <<" ", "A", " ">> }
HouseholdInputs == { << >>, <<"0">>, <<"3">>, <<"-", "2">>, <<"1", ".", "5">> }
ResidenceClicks == {"medium"}
TransportClicks == {"bicycle"}
HeatingClicks == {"solar"}
RecyclingClicks == {"always"}

Users == {"u1", "u2"}
NoUser == "null"
LookupResults == {"completed", "not_completed", "no_row", "error"}

(* ----------------------------------------------------- pure JS functions *)
IsSpace(c) == c = " "

RECURSIVE TrimStart(_)
TrimStart(s) ==
  IF s = << >> THEN s
  ELSE IF IsSpace(Head(s)) THEN TrimStart(Tail(s)) ELSE s

RECURSIVE TrimEnd(_)
TrimEnd(s) ==
  IF s = << >> THEN s
  ELSE IF IsSpace(s[Len(s)]) THEN TrimEnd(SubSeq(s, 1, Len(s) - 1)) ELSE s

(* String.prototype.trim *)
trim(s) == TrimEnd(TrimStart(s))

(* !x for a string x: only the empty string is falsy *)
Falsy(s) == Len(s) = 0

Digits == {"0", "1", "2", "3", "4", "5", "6", "7", "8", "9"}
DigitVal(c) ==
  CASE c = "0" -> 0 [] c = "1" -> 1 [] c = "2" -> 2 [] c = "3" -> 3
    [] c = "4" -> 4 [] c = "5" -> 5 [] c = "6" -> 6 [] c = "7" -> 7
    [] c = "8" -> 8 [] c = "9" -> 9

RECURSIVE DigitsVal(_, _)
DigitsVal(s, acc) ==
  IF s = << >> THEN acc ELSE DigitsVal(Tail(s), acc * 10 + DigitVal(Head(s)))

AllDigits(s) == \A i \in 1..Len(s) : s[i] \in Digits

RECURSIVE Pow10(_)
Pow10(n) == IF n = 0 THEN 1 ELSE 10 * Pow10(n - 1)

(* A number m / 10^e, with trailing zeros of the fraction removed *)
RECURSIVE Normal(_, _)
Normal(m, e) ==
  IF e > 0 /\ m % 10 = 0 THEN Normal(m \div 10, e - 1)
  ELSE [nan |-> FALSE, m |-> m, e |-> e]

NaN == [nan |-> TRUE, m |-> 0, e |-> 0]

DotAt(s) ==
  IF \E i \in 1..Len(s) : s[i] = "." 
  THEN CHOOSE i \in 1..Len(s) : s[i] = "." /\ \A j \in 1..(i - 1) : s[j] # "."
  ELSE 0

(* Number(text): whitespace trimmed, "" is 0, a decimal numeral is its      *)
(* value, anything else NaN                                                 *)
Number(text) ==
  LET t == trim(text)
      neg == t # << >> /\ Head(t) = "-"
      u == IF neg THEN Tail(t) ELSE t
      d == DotAt(u)
      ip == IF d = 0 THEN u ELSE SubSeq(u, 1, d - 1)
      fp == IF d = 0 THEN << >> ELSE SubSeq(u, d + 1, Len(u))
      mag == DigitsVal(ip, 0) * Pow10(Len(fp)) + DigitsVal(fp, 0)
  IN IF t = << >> THEN Normal(0, 0)
     ELSE IF u = << >> \/ ~AllDigits(ip) \/ ~AllDigits(fp) \/ Len(ip) + Len(fp) = 0
     THEN NaN
     ELSE Normal(IF neg THEN 0 - mag ELSE mag, Len(fp))

(* ----------------------------------------------------------------- state *)
VARIABLES
  alive,        \* the component is mounted
  step,         \* useState(1)
  formData,     \* useState(initialFormState)
  userInfos,    \* useState(null)
  loadingUser,  \* useState(true)
  currentUser,  \* useAuth().currentUser as seen by the last render
  guards,       \* guard runs awaiting the store lookup: their mounted flags
  latest,       \* how the most recently started guard run stands
  runs,         \* guard runs started
  updateUser,   \* the mutation observer: status and the mutation it tracks
  inflight,     \* upserts sent to the store and not yet answered: their ids
  submits,      \* mutations started
  out           \* what the last step did outside the component state

vars == <<alive, step, formData, userInfos, loadingUser, currentUser, guards,
          latest, runs, updateUser, inflight, submits, out>>

NoOut ==
  [op |-> "none", navs |-> << >>, lookups |-> << >>, upserts |-> << >>,
   mounted |-> FALSE, result |-> "none"]

Emit(op, navs, lookups, upserts, m, result) ==
  [op |-> op, navs |-> navs, lookups |-> lookups, upserts |-> upserts,
   mounted |-> m, result |-> result]

NullInfos == [null |-> TRUE, onboarding_completed |-> "undefined"]
IdleMutation == [status |-> "idle", id |-> 0]

Init ==
  /\ alive = TRUE
  /\ step = 1
  /\ formData = initialFormState
  /\ userInfos = NullInfos
  /\ loadingUser = TRUE
  /\ currentUser \in Users \cup {NoUser}
  /\ guards = << >>
  /\ latest = "none"
  /\ runs = 0
  /\ updateUser = IdleMutation
  /\ inflight = << >>
  /\ submits = 0
  /\ out = NoOut

(* ---------------------------------------------------------------- render *)
LoadingShown == alive /\ loadingUser
WizardShown == alive /\ ~loadingUser

(* nextDisabled with the name tested without trim *)
nextDisabled_NoTrim ==
  CASE step = 1 ->
         \/ Falsy(formData.name)
         \/ Falsy(formData.household_size)
         \/ Falsy(formData.residence_size)
    [] step = 2 -> Falsy(formData.transportation_type)
    [] step = 3 -> Falsy(formData.heating_type)
    [] step = 4 -> Falsy(formData.recycling_habit)
    [] OTHER -> TRUE

nextDisabled ==
  CASE step = 1 ->
         \/ Falsy(trim(formData.name))
         \/ Falsy(formData.household_size)
         \/ Falsy(formData.residence_size)
    [] step = 2 -> Falsy(formData.transportation_type)
    [] step = 3 -> Falsy(formData.heating_type)
    [] step = 4 -> Falsy(formData.recycling_habit)
    [] OTHER -> TRUE

isPending == updateUser.status = "pending"

(* Back rendered on the first step too *)
BackShown_AtFirst == WizardShown /\ step >= 1

BackShown == WizardShown /\ step > 1
NextShown == WizardShown /\ step < totalSteps
FinishShown == WizardShown /\ ~(step < totalSteps)
NextEnabled == NextShown /\ ~nextDisabled
(* disabled={nextDisabled()} without updateUser.isPending *)
FinishDisabledAttr_NoPending == nextDisabled

FinishDisabledAttr == isPending \/ nextDisabled
FinishEnabled == FinishShown /\ ~FinishDisabledAttr
FinishLabel == IF isPending THEN "Salvando..." ELSE "Finalizar"

(* ----------------------------------------------------------- route guard *)
(* The effect's cleanup: mounted = false in the closure of the run it       *)
(* belongs to.                                                              *)
Cleanup(gs) == [i \in DOMAIN gs |-> FALSE]

RemoveAt(q, i) == SubSeq(q, 1, i - 1) \o SubSeq(q, i + 1, Len(q))

(* guard() up to its first await, for the user the effect's closure holds *)
guardEntry(user) ==
  IF user = NoUser
  THEN [navs |-> <<"Login">>, lookups |-> << >>, setLoading |-> TRUE]
  ELSE [navs |-> << >>,
        lookups |-> << [table |-> "tb_user_infos", user_id |-> user] >>,
        setLoading |-> FALSE]

(* guardResume with every lookup error thrown, PGRST116 included *)
guardResume_ThrowNoRow(m, r) ==
  CASE r \in {"error", "no_row"} ->
         [navs |-> IF m THEN <<"Login">> ELSE << >>, setInfos |-> FALSE,
          setForm |-> FALSE, setLoading |-> m]
    [] r = "completed" ->
         [navs |-> <<"Dashboard">>, setInfos |-> FALSE, setForm |-> FALSE,
          setLoading |-> m]
    [] OTHER ->
         [navs |-> << >>, setInfos |-> TRUE, setForm |-> TRUE,
          setLoading |-> m]

(* guard() after the await: what it does for lookup result r when the       *)
(* closure's mounted flag is m                                              *)
guardResume(m, r) ==
  CASE r = "error" ->
         [navs |-> IF m THEN <<"Login">> ELSE << >>, setInfos |-> FALSE,
          setForm |-> FALSE, setLoading |-> m]
    [] r = "completed" ->
         [navs |-> <<"Dashboard">>, setInfos |-> FALSE, setForm |-> FALSE,
          setLoading |-> m]
    [] OTHER ->
         [navs |-> << >>, setInfos |-> TRUE, setForm |-> TRUE,
          setLoading |-> m]

(* { ...userInfos } for the data of the lookup *)
InfosOf(r) ==
  IF r = "not_completed"
  THEN [null |-> FALSE, onboarding_completed |-> "false"]
  ELSE [null |-> FALSE, onboarding_completed |-> "undefined"]

OutcomeOf(navs) == IF navs = << >> THEN "allow" ELSE navs[Len(navs)]

(* The effect body: start a guard run over the surviving runs gs *)
RunEffect(gs) ==
  LET e == guardEntry(currentUser)
      waits == e.lookups # << >>
  IN
  /\ runs' = runs + 1
  /\ guards' = IF waits THEN Append(gs, TRUE) ELSE gs
  /\ latest' = IF waits THEN "pending" ELSE OutcomeOf(e.navs)
  /\ loadingUser' = IF e.setLoading THEN FALSE ELSE loadingUser
  /\ out' = Emit("effect", e.navs, e.lookups, << >>, TRUE,
                 IF waits THEN "none" ELSE "no_user")
  /\ UNCHANGED <<alive, step, formData, userInfos, currentUser, updateUser,
                 inflight, submits>>

(* First commit: the effect runs once *)
Mount ==
  /\ alive
  /\ runs = 0
  /\ RunEffect(guards)

(* useNavigate() returns a new function: cleanup, then the effect again *)
NavigateIdentityChange ==
  /\ alive
  /\ runs >= 1
  /\ runs < MaxGuardRuns
  /\ RunEffect(Cleanup(guards))

(* The store answers the lookup of run i with r *)
GuardResolve(i, r) ==
  LET mounted == guards[i]
      e == guardResume(mounted, r)
  IN
  /\ guards' = RemoveAt(guards, i)
  /\ latest' = IF mounted THEN OutcomeOf(e.navs) ELSE latest
  /\ userInfos' = IF e.setInfos /\ alive THEN InfosOf(r) ELSE userInfos
  /\ formData' = IF e.setForm /\ alive THEN initialFormState ELSE formData
  /\ loadingUser' = IF e.setLoading /\ alive THEN FALSE ELSE loadingUser
  /\ out' = Emit("guard", e.navs, << >>, << >>, mounted, r)
  /\ UNCHANGED <<alive, step, currentUser, runs, updateUser, inflight,
                 submits>>

(* The router (or a parent) removes the component: the effect's cleanup    *)
(* runs and React discards the component's state and its observer.         *)
Unmount ==
  /\ alive
  /\ alive' = FALSE
  /\ guards' = Cleanup(guards)
  /\ step' = 1
  /\ formData' = initialFormState
  /\ userInfos' = NullInfos
  /\ loadingUser' = TRUE
  /\ currentUser' = NoUser
  /\ updateUser' = IdleMutation
  /\ out' = NoOut
  /\ UNCHANGED <<latest, runs, inflight, submits>>

(* The auth context hands the component another currentUser *)
AuthChange(u) ==
  /\ alive
  /\ u # currentUser
  /\ currentUser' = u
  /\ out' = NoOut
  /\ UNCHANGED <<alive, step, formData, userInfos, loadingUser, guards,
                 latest, runs, updateUser, inflight, submits>>

(* ---------------------------------------------------------------- wizard *)
Edit(f) ==
  /\ formData' = f
  /\ out' = NoOut
  /\ UNCHANGED <<alive, step, userInfos, loadingUser, currentUser, guards,
                 latest, runs, updateUser, inflight, submits>>

SetName(v) ==
  WizardShown /\ step = 1 /\ Edit([formData EXCEPT !.name = v])
SetHouseholdSize(v) ==
  WizardShown /\ step = 1 /\ Edit([formData EXCEPT !.household_size = v])
SetResidenceSize(v) ==
  WizardShown /\ step = 1 /\ Edit([formData EXCEPT !.residence_size = v])
ToggleGarden ==
  WizardShown /\ step = 1
  /\ Edit([formData EXCEPT !.has_garden = ~formData.has_garden])
SetTransportationType(v) ==
  WizardShown /\ step = 2 /\ Edit([formData EXCEPT !.transportation_type = v])
SetHeatingType(v) ==
  WizardShown /\ step = 3 /\ Edit([formData EXCEPT !.heating_type = v])
ToggleSolarPanels ==
  WizardShown /\ step = 3
  /\ Edit([formData EXCEPT !.has_solar_panels = ~formData.has_solar_panels])
SetRecyclingHabit(v) ==
  WizardShown /\ step = 4 /\ Edit([formData EXCEPT !.recycling_habit = v])

(* setStep that also puts the form back to its defaults *)
Move_ResetForm(d) ==
  /\ step' = step + d
  /\ formData' = initialFormState
  /\ out' = NoOut
  /\ UNCHANGED <<alive, userInfos, loadingUser, currentUser, guards,
                 latest, runs, updateUser, inflight, submits>>

Move(d) ==
  /\ step' = step + d
  /\ out' = NoOut
  /\ UNCHANGED <<alive, formData, userInfos, loadingUser, currentUser, guards,
                 latest, runs, updateUser, inflight, submits>>

Back == BackShown /\ Move(-1)
NextStep == NextEnabled /\ Move(1)

(* ------------------------------------------------------------ submission *)
(* handleSubmit sending the name as typed *)
handleSubmit_RawName(f) ==
  [name |-> f.name,
   household_size |-> Number(f.household_size),
   transportation_type |-> f.transportation_type,
   has_solar_panels |-> f.has_solar_panels,
   heating_type |-> f.heating_type,
   residence_size |-> f.residence_size,
   has_garden |-> f.has_garden,
   recycling_habit |-> f.recycling_habit,
   onboarding_completed |-> TRUE,
   has_seen_intro |-> TRUE]

handleSubmit(f) ==
  [name |-> trim(f.name),
   household_size |-> Number(f.household_size),
   transportation_type |-> f.transportation_type,
   has_solar_panels |-> f.has_solar_panels,
   heating_type |-> f.heating_type,
   residence_size |-> f.residence_size,
   has_garden |-> f.has_garden,
   recycling_habit |-> f.recycling_habit,
   onboarding_completed |-> TRUE,
   has_seen_intro |-> TRUE]

(* mutationFn up to its await: the upserts it sends, none when it throws *)
mutationFn(user, payload) ==
  IF user = NoUser THEN << >>
  ELSE << [table |-> "tb_user_infos", user_id |-> user, payload |-> payload,
           onConflict |-> "user_id"] >>

(* Click on Finish: handleSubmit, then updateUser.mutate(payload) *)
Finish ==
  LET sent == mutationFn(currentUser, handleSubmit(formData)) IN
  /\ FinishEnabled
  /\ submits < MaxSubmits
  /\ submits' = submits + 1
  /\ inflight' = inflight \o [k \in DOMAIN sent |-> submits + 1]
  /\ updateUser' = [status |-> IF sent = << >> THEN "error" ELSE "pending",
                    id |-> submits + 1]
  /\ out' = Emit("finish", << >>, << >>, sent, TRUE, "none")
  /\ UNCHANGED <<alive, step, formData, userInfos, loadingUser, currentUser,
                 guards, latest, runs>>

(* the navigation run on every settlement, as onSettled would *)
onSuccess_Always(ok) == <<"Dashboard">>

(* onSuccess of the mutation *)
onSuccess(ok) == IF ok THEN <<"Dashboard">> ELSE << >>

(* The store answers upsert i: ok, or an error that mutationFn throws *)
Settle(i, ok) ==
  /\ inflight' = RemoveAt(inflight, i)
  /\ updateUser' = IF alive /\ updateUser.id = inflight[i]
                   THEN [updateUser EXCEPT
                           !.status = IF ok THEN "success" ELSE "error"]
                   ELSE updateUser
  /\ out' = Emit("settle", onSuccess(ok), << >>, << >>, TRUE,
                 IF ok THEN "ok" ELSE "error")
  /\ UNCHANGED <<alive, step, formData, userInfos, loadingUser, currentUser,
                 guards, latest, runs, submits>>

(* ------------------------------------------------------------------ spec *)
Next ==
  \/ Mount
  \/ NavigateIdentityChange
  \/ \E i \in DOMAIN guards, r \in LookupResults : GuardResolve(i, r)
  \/ Unmount
  \/ \E u \in Users \cup {NoUser} : AuthChange(u)
  \/ \E v \in NameInputs : SetName(v)
  \/ \E v \in HouseholdInputs : SetHouseholdSize(v)
  \/ \E v \in ResidenceClicks : SetResidenceSize(v)
  \/ ToggleGarden
  \/ \E v \in TransportClicks : SetTransportationType(v)
  \/ \E v \in HeatingClicks : SetHeatingType(v)
  \/ ToggleSolarPanels
  \/ \E v \in RecyclingClicks : SetRecyclingHabit(v)
  \/ Back
  \/ NextStep
  \/ Finish
  \/ \E i \in DOMAIN inflight, ok \in BOOLEAN : Settle(i, ok)

Spec == Init /\ [][Next]_vars

TypeOK ==
  /\ alive \in BOOLEAN
  /\ step \in Int
  /\ loadingUser \in BOOLEAN
  /\ currentUser \in Users \cup {NoUser}
  /\ latest \in {"none", "pending", "allow", "Login", "Dashboard"}
  /\ runs \in 0..MaxGuardRuns
  /\ submits \in 0..MaxSubmits
  /\ formData.residence_size \in residenceSizeOptions \cup {""}
  /\ formData.transportation_type \in transportOptions \cup {""}
  /\ formData.heating_type \in heatingOptions \cup {""}
  /\ formData.recycling_habit \in recyclingOptions \cup {""}
  /\ ResidenceClicks \subseteq residenceSizeOptions
  /\ TransportClicks \subseteq transportOptions
  /\ HeatingClicks \subseteq heatingOptions
  /\ RecyclingClicks \subseteq recyclingOptions

(* ================================================================ claims *)
(* A required field of step s is unset in form f *)
StepInvalid(s, f) ==
  CASE s = 1 -> trim(f.name) = << >> \/ f.household_size = << >>
                \/ f.residence_size = ""
    [] s = 2 -> f.transportation_type = ""
    [] s = 3 -> f.heating_type = ""
    [] s = 4 -> f.recycling_habit = ""

(* The disabled attribute of the forward control the current step renders *)
ForwardDisabled == IF step < totalSteps THEN nextDisabled ELSE FinishDisabledAttr

(* The guard ran once, for a signed-in user, and allowed the wizard *)
SingleAllowedRun == runs = 1 /\ latest = "allow"

(* C1, as stated: whenever the wizard is shown, the forward control of the  *)
(* current step is disabled exactly when a required field of that step is   *)
(* unset (stated for runs in which the guard ran once and allowed).         *)
C1_AsStated ==
  (WizardShown /\ SingleAllowedRun)
    => (ForwardDisabled <=> StepInvalid(step, formData))

(* C1, amended: whenever the wizard is shown, the forward control of the    *)
(* current step is disabled exactly when a required field of that step is   *)
(* unset or, on step 4, a submission is pending; and while the current      *)
(* step is invalid no step raises the step and no submission starts.        *)
C1_ForwardGate ==
  /\ [](WizardShown =>
          (ForwardDisabled <=>
             (StepInvalid(step, formData) \/ (step = totalSteps /\ isPending))))
  /\ [][StepInvalid(step, formData) => step' <= step /\ submits' = submits]_vars

C1_Witness ==
  /\ WizardShown
  /\ step = 1
  /\ formData.name = <<" ">>
  /\ formData.household_size = <<"3">>
  /\ formData.residence_size = "medium"
  /\ ForwardDisabled

(* C2: when a guard run whose mounted flag is false gets its lookup         *)
(* answered, that step changes none of userInfos, formData, loadingUser     *)
(* and navigates nowhere.                                                   *)
C2_StaleGuardSilent ==
  [][(Len(guards') < Len(guards) /\ ~out'.mounted)
       => /\ UNCHANGED <<userInfos, formData, loadingUser>>
          /\ out'.navs = << >>]_vars

(* C3: the wizard is rendered only if no guard lookup is pending and the    *)
(* latest guard run ended with the allow outcome.                           *)
C3_WizardOnlyAfterAllow ==
  WizardShown => (guards = << >> /\ latest = "allow")

(* C4: a guard run whose mounted flag stays true ends in the outcome its    *)
(* inputs choose: no user, Login and no lookup; lookup error other than     *)
(* no-row, Login; onboarding completed, Dashboard; not completed or no row, *)
(* no navigation, the form at its defaults and the wizard rendered. No run  *)
(* navigates twice or to another route.                                     *)
C4_GuardOutcome ==
  /\ out.op = "effect" =>
       IF currentUser = NoUser
       THEN out.navs = <<"Login">> /\ out.lookups = << >> /\ latest = "Login"
            /\ \A i \in DOMAIN guards : ~guards[i]
       ELSE out.navs = << >> /\ latest = "pending"
            /\ out.lookups
                 = << [table |-> "tb_user_infos", user_id |-> currentUser] >>
  /\ (out.op = "guard" /\ out.mounted) =>
       /\ out.lookups = << >>
       /\ out.result = "error" => out.navs = <<"Login">> /\ latest = "Login"
       /\ out.result = "completed" =>
            out.navs = <<"Dashboard">> /\ latest = "Dashboard"
       /\ out.result \in {"not_completed", "no_row"} =>
            /\ out.navs = << >>
            /\ latest = "allow"
            /\ formData = initialFormState
            /\ WizardShown

C4_Witness ==
  /\ out.op = "guard"
  /\ out.mounted
  /\ out.result = "no_row"
  /\ WizardShown
  /\ runs = 2

(* A step in which the store answers an upsert *)
Settles == Len(inflight') < Len(inflight)
(* A step in which Finish is pressed *)
Presses == submits' = submits + 1

(* C5, as stated: after an upsert is rejected, or a press with no current   *)
(* user, nothing was navigated, the step is 4 and Finish is enabled again   *)
(* (stated for runs in which the guard ran once and allowed).               *)
C5_AsStated ==
  (alive /\ SingleAllowedRun
         /\ ( \/ out.op = "settle" /\ out.result = "error"
              \/ out.op = "finish" /\ out.upserts = << >> ))
    => out.navs = << >> /\ step = totalSteps /\ FinishEnabled

(* C5, amended: the submission handler navigates, to Dashboard, only in the *)
(* step in which an upsert returns success; a rejected upsert, or a press   *)
(* with no current user, navigates nowhere, leaves step and form data as    *)
(* they are and clears the pending state, so that Finish is enabled again   *)
(* whenever step 4 is still shown with its required field chosen.           *)
C5_SubmitOutcome ==
  /\ [][Settles =>
          /\ UNCHANGED <<step, formData>>
          /\ out'.navs = IF out'.result = "ok" THEN <<"Dashboard">> ELSE << >>
          /\ alive => ~isPending'
          /\ (out'.result = "error" /\ WizardShown /\ step = totalSteps
                /\ ~StepInvalid(step, formData)) => FinishEnabled']_vars
  /\ [][Presses =>
          /\ UNCHANGED <<step, formData>>
          /\ out'.navs = << >>
          /\ currentUser = NoUser =>
               out'.upserts = << >> /\ inflight' = inflight /\ FinishEnabled']_vars
  /\ [][(out'.navs # << >> /\ out'.op \notin {"effect", "guard"})
          => Settles /\ out'.result = "ok"]_vars

C5_Witness ==
  /\ out.op = "settle"
  /\ out.result = "error"
  /\ WizardShown
  /\ step = totalSteps
  /\ FinishEnabled

(* C6: at most one upsert is in flight, and while one is, the mounted       *)
(* component is pending: Finish is disabled and labelled as saving.         *)
C6_SingleUpsert ==
  /\ Len(inflight) <= 1
  /\ (alive /\ inflight # << >>) =>
       /\ isPending
       /\ ~FinishEnabled
       /\ FinishDisabledAttr
       /\ FinishLabel = "Salvando..."

C6_Witness ==
  /\ WizardShown
  /\ step = totalSteps
  /\ Len(inflight) = 1
  /\ submits = 2
  /\ ~FinishEnabled

(* C7: the step starts at 1 and stays in 1..4; on the mounted component it  *)
(* changes only by +1 through an enabled Next or by -1 through Back; Back   *)
(* is rendered on steps 2-4 only, Next on steps 1-3 only, Finish on step 4  *)
(* only, and a press of Finish leaves the step alone.                       *)
C7_StepMoves ==
  /\ step = 1
  /\ [](step \in 1..totalSteps)
  /\ [](WizardShown =>
          /\ BackShown <=> step \in 2..totalSteps
          /\ NextShown <=> step \in 1..(totalSteps - 1)
          /\ FinishShown <=> step = totalSteps)
  /\ [][(alive' /\ step' # step) =>
          \/ step' = step + 1 /\ NextEnabled
          \/ step' = step - 1 /\ BackShown]_vars
  /\ [][Presses => step' = step]_vars

C7_Witness ==
  /\ WizardShown
  /\ step = 3
  /\ formData.recycling_habit = "always"
  /\ BackShown

(* The number a household-size text denotes *)
Denoted(text) ==
  CASE text = << >> -> [nan |-> FALSE, m |-> 0, e |-> 0]
    [] text = <<"0">> -> [nan |-> FALSE, m |-> 0, e |-> 0]
    [] text = <<"3">> -> [nan |-> FALSE, m |-> 3, e |-> 0]
    [] text = <<"-", "2">> -> [nan |-> FALSE, m |-> -2, e |-> 0]
    [] text = <<"1", ".", "5">> -> [nan |-> FALSE, m |-> 15, e |-> 1]

(* The upsert a press of Finish has to send for user u and form f *)
ExpectedUpsert(u, f) ==
  [table |-> "tb_user_infos", user_id |-> u, onConflict |-> "user_id",
   payload |->
     [name |-> CASE f.name = <<" ", "A", " ">> -> <<"A">>
                 [] f.name = <<" ">> -> << >>
                 [] OTHER -> f.name,
      household_size |-> Denoted(f.household_size),
      transportation_type |-> f.transportation_type,
      heating_type |-> f.heating_type,
      residence_size |-> f.residence_size,
      recycling_habit |-> f.recycling_habit,
      has_garden |-> f.has_garden,
      has_solar_panels |-> f.has_solar_panels,
      onboarding_completed |-> TRUE,
      has_seen_intro |-> TRUE]]

(* C8, as stated: every press of an enabled Finish sends exactly one        *)
(* upsert, keyed by the current user's id with conflict target user_id,     *)
(* carrying the snapshot of the form (stated for runs in which the guard    *)
(* ran once and allowed).                                                   *)
C8_AsStated ==
  (out.op = "finish" /\ SingleAllowedRun) => out.upserts = << ExpectedUpsert(currentUser, formData) >>

(* C8, amended: a press of an enabled Finish with a current user sends      *)
(* exactly one upsert, keyed by that user's id with conflict target         *)
(* user_id, carrying the snapshot of the form; with no current user it      *)
(* sends none.                                                              *)
C8_UpsertPayload ==
  out.op = "finish" =>
    IF currentUser = NoUser
    THEN out.upserts = << >>
    ELSE out.upserts = << ExpectedUpsert(currentUser, formData) >>

C8_Witness ==
  /\ out.op = "finish"
  /\ Len(out.upserts) = 1
  /\ formData.name = <<" ", "A", " ">>
  /\ formData.household_size = <<"1", ".", "5">>
  /\ formData.has_garden
  /\ ~formData.has_solar_panels
  /\ currentUser = "u2"

(* C9: every upsert payload carries household_size as an integer >= 1      *)
(* (stated for runs in which the guard ran once and allowed).               *)
C9_HouseholdPositiveInteger ==
  SingleAllowedRun => \A k \in DOMAIN out.upserts :
    LET n == out.upserts[k].payload.household_size IN
    ~n.nan /\ n.e = 0 /\ n.m >= 1

(* C10: whenever the wizard is at step s every step before s is valid, and  *)
(* every upsert is issued from a form whose required fields are all set.    *)
C10_EarlierStepsValid ==
  /\ WizardShown => \A s \in 1..(step - 1) : ~StepInvalid(s, formData)
  /\ out.upserts # << >> => \A s \in 1..totalSteps : ~StepInvalid(s, formData)

(* The fields in which two forms differ *)
Changed(f, g) == {k \in DOMAIN f : f[k] # g[k]}

(* The step sent nothing to the store and navigated nowhere *)
Silent ==
  /\ out'.navs = << >>
  /\ out'.lookups = << >>
  /\ out'.upserts = << >>
  /\ UNCHANGED <<guards, inflight, submits, runs>>

(* C11: on the mounted component a step that changes the step (Next, Back)  *)
(* leaves every form field as it is; a field edit changes exactly the       *)
(* edited field and not the step; neither sends a store request or          *)
(* navigates; and an upsert is sent only by a press of Finish on step 4.    *)
C11_Frame ==
  /\ [][(alive' /\ step' # step) => formData' = formData /\ Silent]_vars
  /\ [][(alive' /\ formData' # formData /\ out'.op # "guard") =>
          /\ Cardinality(Changed(formData, formData')) = 1
          /\ step' = step
          /\ Silent]_vars
  /\ [][(out'.upserts # << >> \/ Len(inflight') > Len(inflight)) =>
          /\ Presses
          /\ step = totalSteps
          /\ FinishEnabled
          /\ Len(out'.upserts) = 1]_vars

C11_Witness ==
  /\ WizardShown
  /\ step = 1
  /\ runs = 1
  /\ formData.name = <<" ", "A", " ">>
  /\ formData.has_garden
  /\ formData.transportation_type = "bicycle"
  /\ formData.heating_type = "solar"
  /\ submits = 0
====
